---- MODULE Spec2Model ----
(***************************************************************************)
(* The SignalWire <-> OpenAI realtime bridge of voice_agent:               *)
(*   - OpenAIRealtimeClient (openai_client.py): one websocket connection,  *)
(*     connect / close / send_json / send_audio_chunk / responses;         *)
(*   - SignalWireRealtimeBridge (signalwire_bridge.py): run() and its two  *)
(*     asyncio tasks, _receive_from_signalwire and                         *)
(*     _forward_openai_responses.                                          *)
(* A task step is the code between two suspension points.  A write to a    *)
(* websocket takes effect at the call; the task is then suspended in the   *)
(* await and can be cancelled there.                                       *)
(***************************************************************************)
EXTENDS Naturals, Sequences, FiniteSets

\* ------------------------------------------------------------------ bounds
\* inbound telephony frames delivered during one call
MaxFrames == 2
\* events emitted by the AI service during one call
MaxAiEvents == 2
\* calls made on a stand-alone client (ClientSpec)
MaxOps == 4

\* ------------------------------------------------------------- python values
None == "None"

\* bool(x) of an optional string
Truthy(x) == x # None /\ x # ""

\* x or y
Or(x, y) == IF Truthy(x) THEN x ELSE y

\* ------------------------------------------------------- telephony frames in
\* A text frame: json is FALSE when json.loads raises; the other fields are the
\* keys of the decoded object (None: key absent).
Frame(js, ev, ty, sid, sid2, hm, pl) ==
    [json |-> js, event |-> ev, type |-> ty, streamId |-> sid, stream_id |-> sid2,
     hasMedia |-> hm, payload |-> pl]

FStartA    == Frame(TRUE, "start", None, "s1", None, FALSE, None)
FStartB    == Frame(TRUE, None, "start", None, "s2", FALSE, None)
FStartNoId == Frame(TRUE, "start", None, None, "", FALSE, None)
FMediaA    == Frame(TRUE, "media", None, None, None, TRUE, "A")
FMediaB    == Frame(TRUE, None, "media", None, None, TRUE, "B")
FMediaNone == Frame(TRUE, "media", None, None, None, TRUE, "")
FMark      == Frame(TRUE, "mark", None, None, None, FALSE, None)
FStop      == Frame(TRUE, "stop", None, None, None, FALSE, None)
FClose     == Frame(TRUE, None, "close", None, None, FALSE, None)
FBad       == Frame(FALSE, None, None, None, None, FALSE, None)

Frames == {FStartA, FStartB, FStartNoId, FMediaA, FMediaB, FMediaNone, FMark,
           FStop, FClose, FBad}

\* payload.get("event") or payload.get("type")
EventType(f) == Or(f.event, f.type)

\* payload.get("streamId") or payload.get("stream_id")
MutStreamIdOnly(f) == f.streamId

StreamIdOf(f) == Or(f.streamId, f.stream_id)

\* _on_media: the audio forwarded for a media frame, None when it returns early
MediaAudio(f) ==
    IF ~f.hasMedia THEN None
    ELSE IF ~Truthy(f.payload) THEN None
    ELSE f.payload

\* The frames as the interface names them: the event tag under `event` or
\* `type`, the stream identifier under `streamId` or `stream_id`.
Tag(f) == IF f.event \notin {None, ""} THEN f.event ELSE f.type

HasId(f) == f.streamId \notin {None, ""} \/ f.stream_id \notin {None, ""}

IdOf(f) == IF f.streamId \notin {None, ""} THEN f.streamId ELSE f.stream_id

IsStart(f) == f.json /\ Tag(f) = "start"

IsStop(f) == f.json /\ Tag(f) \in {"stop", "close"}

IsAudio(f) == f.json /\ Tag(f) = "media" /\ f.hasMedia /\ f.payload \notin {None, ""}

\* ------------------------------------------------------ telephony frames out
ReadyFrame == [event |-> "ready", streamId |-> None, payload |-> None]

MediaFrame(sid, audio) == [event |-> "media", streamId |-> sid, payload |-> audio]

\* --------------------------------------------------------------- AI messages
Msg(t, a) == [type |-> t, audio |-> a]

SessionUpdate  == Msg("session.update", None)
AppendMsg(a)   == Msg("input_audio_buffer.append", a)
CommitMsg      == Msg("input_audio_buffer.commit", None)
ResponseCreate == Msg("response.create", None)

\* the default of send_audio_chunk's end_of_input parameter
MutEndOfInputTrue == TRUE

EndOfInputDefault == FALSE

\* the messages send_audio_chunk sends, in order
MutChunkAlwaysFlushes(audio, end_of_input) ==
    <<AppendMsg(audio), CommitMsg, ResponseCreate>>

SendAudioChunkMsgs(audio, end_of_input) ==
    <<AppendMsg(audio)>> \o
        (IF end_of_input THEN <<CommitMsg, ResponseCreate>> ELSE <<>>)

\* the flush of the stop/close branch
FlushMsgs == <<CommitMsg, ResponseCreate>>

\* events of the AI service: audio is event["delta"]["audio"]
AiDeltaX    == Msg("response.output_audio.delta", "X")
AiDeltaY    == Msg("response.output_audio.delta", "Y")
AiDeltaNone == Msg("response.output_audio.delta", "")
AiCompleted == Msg("response.completed", None)
AiError     == Msg("error", None)

AiEvents == {AiDeltaX, AiDeltaY, AiDeltaNone, AiCompleted, AiError}

\* the audio _forward_openai_responses forwards for an event, None when none
DeltaAudio(e) ==
    IF e.type = "response.output_audio.delta" /\ Truthy(e.audio) THEN e.audio
    ELSE None

\* ----------------------------------------------------------------- the state
VARIABLES
    connection,    \* client._connection: "None", "open" or "closed" (object, .closed)
    connClose,     \* how the connection closed: "no", "ok" (normal), "error" (abnormal)
    aiSent,        \* messages sent on the current connection, in order
    connects,      \* websockets.connect calls that returned a connection
    closeCalls,    \* connection.close() calls on the current connection
    clientCloses,  \* OpenAIRealtimeClient.close() calls
    cliErr,        \* outcome of the last call made on a stand-alone client
    cliOps,        \* calls made on a stand-alone client
    cliLast,       \* the last call made on a stand-alone client
    aiQueue,       \* events the AI service emitted, not yet yielded by responses()
    aiCount,       \* how many events the AI service has emitted
    aiRead,        \* how many of them responses() has yielded
    earlyCount,    \* how many of them were emitted before the latch was set
    fwLogged,      \* how many completed/error events the outbound loop has logged
    nRecv,         \* how many frames receive_text() has returned
    stopAt,        \* nRecv at the first stop/close frame received (0: none yet)
    rxAudio,       \* audio of the media frames received while the AI connection
                   \* was open, in order
    teleSent,      \* frames sent to the telephony peer, in order
    fwdIdx,        \* for each media frame sent, the number of its event (1: first emitted)
    stream_id,     \* bridge._stream_id
    ready,         \* bridge._ready (asyncio.Event)
    rxPc, rxErr, rxTodo, rxAfter, rxCancel,   \* task _receive_from_signalwire
    fwPc, fwErr, fwCancel,                    \* task _forward_openai_responses
    runPc, runResult                          \* run()

clientVars == <<connection, connClose, aiSent, connects, closeCalls, clientCloses>>
standVars  == <<cliErr, cliOps, cliLast>>
aiVars     == <<aiQueue, aiCount, aiRead, earlyCount, fwLogged>>
teleInVars == <<nRecv, stopAt, rxAudio>>
sessVars   == <<stream_id, ready>>
rxVars     == <<rxPc, rxErr, rxTodo, rxAfter, rxCancel>>
fwVars     == <<fwPc, fwErr, fwCancel>>
runVars    == <<runPc, runResult>>

vars == <<clientVars, standVars, aiVars, teleInVars, teleSent, fwdIdx, sessVars,
          rxVars, fwVars, runVars>>

Terminal(pc) == pc \in {"done", "failed", "cancelled"}

\* OpenAIRealtimeClient.is_connected
is_connected == connection = "open"

Init ==
    /\ connection = None /\ connClose = "no" /\ aiSent = <<>>
    /\ connects = 0 /\ closeCalls = 0 /\ clientCloses = 0
    /\ cliErr = "ok" /\ cliOps = 0 /\ cliLast = "none"
    /\ aiQueue = <<>> /\ aiCount = 0 /\ aiRead = 0 /\ earlyCount = 0
    /\ fwLogged = 0
    /\ nRecv = 0 /\ stopAt = 0 /\ rxAudio = <<>>
    /\ teleSent = <<>> /\ fwdIdx = <<>>
    /\ stream_id = None /\ ready = FALSE
    /\ rxPc = "none" /\ rxErr = "none" /\ rxTodo = <<>> /\ rxAfter = "recv"
    /\ rxCancel = FALSE
    /\ fwPc = "none" /\ fwErr = "none" /\ fwCancel = FALSE
    /\ runPc = "init" /\ runResult = "none"


\* ------------------------------------------------------ OpenAIRealtimeClient
\* send_json: the guard `if not self.is_connected: raise`
MutSendUnlessNone(conn) == conn # None

SendAllowed(conn) == conn = "open"

\* connect: the guard `if self.is_connected: return self._connection`
MutNeverReuses(conn) == FALSE

ConnectReuses(conn) == conn = "open"

\* close: the guard `if self._connection and not self._connection.closed`
MutCloseUnguarded(conn) == TRUE

CloseIssues(conn) == conn # None /\ conn # "closed"

\* connect() on a client that has no open connection: websockets.connect returns
\* a new connection and session.update is sent on it
ConnectOpen ==
    /\ connection' = "open" /\ connClose' = "no"
    /\ connects' = connects + 1 /\ closeCalls' = 0
    /\ aiSent' = <<SessionUpdate>>
    /\ UNCHANGED clientCloses

\* close() up to its await: connection.close() is called where the guard lets
\* it (on None that call raises AttributeError), which starts the closing
\* handshake; otherwise close() runs to its end, self._connection = None
CloseRaises(conn) == CloseIssues(conn) /\ conn = None

CloseBegin ==
    /\ clientCloses' = clientCloses + 1
    /\ IF CloseRaises(connection)
       THEN UNCHANGED <<connection, closeCalls, connClose>>
       ELSE IF CloseIssues(connection)
       THEN /\ closeCalls' = closeCalls + 1
            /\ connection' = "closed"
            /\ connClose' = IF connection = "open" THEN "ok" ELSE connClose
       ELSE /\ connection' = None
            /\ UNCHANGED <<closeCalls, connClose>>
    /\ UNCHANGED <<aiSent, connects>>

\* ------------------------------------------------- run(): accept and connect
RunStart ==
    /\ runPc = "init"
    /\ ConnectOpen
    /\ rxPc' = "recv" /\ fwPc' = "wait_ready" /\ runPc' = "waiting"
    /\ UNCHANGED <<standVars, aiVars, teleInVars, teleSent, fwdIdx, sessVars,
                   rxErr, rxTodo, rxAfter, rxCancel, fwErr, fwCancel, runResult>>

\* websockets.connect raises: __aenter__ fails, no task is created
RunConnectFail ==
    /\ runPc = "init"
    /\ runPc' = "exited" /\ runResult' = "connect"
    /\ UNCHANGED <<clientVars, standVars, aiVars, teleInVars, teleSent, fwdIdx,
                   sessVars, rxVars, fwVars>>

\* ------------------------------------------------------------ the two peers
AiEmit(e) ==
    /\ runPc = "waiting"
    /\ connection = "open"
    /\ aiCount < MaxAiEvents
    /\ aiQueue' = Append(aiQueue, e)
    /\ aiCount' = aiCount + 1
    /\ earlyCount' = IF ready THEN earlyCount ELSE earlyCount + 1
    /\ UNCHANGED <<clientVars, standVars, aiRead, fwLogged, teleInVars, teleSent,
                   fwdIdx, sessVars, rxVars, fwVars, runVars>>

\* the AI service (or the network) closes the connection: normally or abnormally
AiClose(mode) ==
    /\ runPc = "waiting"
    /\ connection = "open"
    /\ connection' = "closed" /\ connClose' = mode
    /\ UNCHANGED <<aiSent, connects, closeCalls, clientCloses, standVars, aiVars,
                   teleInVars, teleSent, fwdIdx, sessVars, rxVars, fwVars, runVars>>

\* ------------------------------------------------ _receive_from_signalwire
\* send the first of msgs on the AI connection and suspend in the send; the rest
\* follows on resumption, then `after` ("recv": next iteration, "break")
RxSendAi(msgs, after) ==
    IF SendAllowed(connection)
    THEN /\ aiSent' = Append(aiSent, Head(msgs))
         /\ rxPc' = "ai_sent" /\ rxTodo' = Tail(msgs) /\ rxAfter' = after
         /\ UNCHANGED rxErr
    ELSE /\ rxPc' = "failed" /\ rxErr' = "notconnected"
         /\ UNCHANGED <<aiSent, rxTodo, rxAfter>>

\* what follows the flush of the stop/close branch
MutStopContinues == "recv"

StopAfter == "break"

\* _on_start goes on past `if not stream_id: return`
MutOnStartAlways(sid) == TRUE

OnStartProceeds(sid) == Truthy(sid)

\* receive_text() returns the frame f the telephony peer sent: decode and
\* dispatch it
RxReceive(f) ==
    /\ rxPc = "recv" /\ ~rxCancel
    /\ nRecv < MaxFrames
    /\ nRecv' = nRecv + 1
    /\ stopAt' = IF stopAt = 0 /\ IsStop(f) THEN nRecv + 1 ELSE stopAt
    /\ rxAudio' = IF IsAudio(f) /\ connection = "open"
                   THEN Append(rxAudio, f.payload) ELSE rxAudio
    /\ IF ~f.json
       THEN /\ rxPc' = "failed" /\ rxErr' = "decode"
            /\ UNCHANGED <<aiSent, rxTodo, rxAfter, stream_id, teleSent>>
       ELSE IF EventType(f) = "start"
       THEN /\ stream_id' = StreamIdOf(f)
            /\ IF OnStartProceeds(StreamIdOf(f))
               THEN /\ teleSent' = Append(teleSent, ReadyFrame)
                    /\ rxPc' = "on_start_sent"
               ELSE UNCHANGED <<teleSent, rxPc>>
            /\ UNCHANGED <<aiSent, rxErr, rxTodo, rxAfter>>
       ELSE IF EventType(f) = "media"
       THEN /\ IF MediaAudio(f) = None
               THEN UNCHANGED <<aiSent, rxPc, rxErr, rxTodo, rxAfter>>
               ELSE RxSendAi(SendAudioChunkMsgs(MediaAudio(f), EndOfInputDefault),
                             "recv")
            /\ UNCHANGED <<stream_id, teleSent>>
       ELSE IF EventType(f) \in {"mark", "connected"}
       THEN UNCHANGED <<aiSent, rxPc, rxErr, rxTodo, rxAfter, stream_id, teleSent>>
       ELSE IF EventType(f) \in {"stop", "close"}
       THEN /\ RxSendAi(FlushMsgs, StopAfter)
            /\ UNCHANGED <<stream_id, teleSent>>
       ELSE UNCHANGED <<aiSent, rxPc, rxErr, rxTodo, rxAfter, stream_id, teleSent>>
    /\ UNCHANGED <<connection, connClose, connects, closeCalls, clientCloses,
                   standVars, aiVars, fwdIdx, ready, rxCancel, fwVars, runVars>>

\* the telephony peer disconnects, receive_text() raises WebSocketDisconnect:
\* break
RxDisconnect ==
    /\ rxPc = "recv" /\ ~rxCancel
    /\ rxPc' = "done"
    /\ UNCHANGED <<clientVars, standVars, aiVars, teleInVars, teleSent, fwdIdx,
                   sessVars, rxErr, rxTodo, rxAfter, rxCancel, fwVars, runVars>>

\* _on_start resumes after sending the ready frame: self._ready.set()
RxOnStartResume ==
    /\ rxPc = "on_start_sent" /\ ~rxCancel
    /\ ready' = TRUE
    /\ rxPc' = "recv"
    /\ UNCHANGED <<clientVars, standVars, aiVars, teleInVars, teleSent, fwdIdx,
                   stream_id, rxErr, rxTodo, rxAfter, rxCancel, fwVars, runVars>>

\* resumes after a send on the AI connection
RxAiResume ==
    /\ rxPc = "ai_sent" /\ ~rxCancel
    /\ IF rxTodo # <<>>
       THEN RxSendAi(rxTodo, rxAfter)
       ELSE /\ rxPc' = IF rxAfter = "break" THEN "done" ELSE "recv"
            /\ UNCHANGED <<aiSent, rxErr, rxTodo, rxAfter>>
    /\ UNCHANGED <<connection, connClose, connects, closeCalls, clientCloses,
                   standVars, aiVars, teleInVars, teleSent, fwdIdx, sessVars,
                   rxCancel, fwVars, runVars>>

\* task.cancel() took effect: CancelledError at the suspension point
RxCancelled ==
    /\ rxCancel /\ rxPc # "none" /\ ~Terminal(rxPc)
    /\ rxPc' = "cancelled"
    /\ UNCHANGED <<clientVars, standVars, aiVars, teleInVars, teleSent, fwdIdx,
                   sessVars, rxErr, rxTodo, rxAfter, rxCancel, fwVars, runVars>>

\* the steps the event loop takes on its own, and those the telephony peer causes
RxStep == RxOnStartResume \/ RxAiResume \/ RxCancelled

RxInput == (\E f \in Frames : RxReceive(f)) \/ RxDisconnect


\* ------------------------------------------------ _forward_openai_responses
\* `await self._ready.wait()` returns
MutNoReadyWait(r) == TRUE

ReadyWaitReturns(r) == r

\* _send_audio_to_signalwire sends (past `if not self._stream_id: return`)
AudioAddressable(sid) == Truthy(sid)

\* the latch is set: responses() starts iterating the connection
FwStart ==
    /\ fwPc = "wait_ready" /\ ~fwCancel
    /\ ReadyWaitReturns(ready)
    /\ IF is_connected
       THEN fwPc' = "iter" /\ UNCHANGED fwErr
       ELSE fwPc' = "failed" /\ fwErr' = "notconnected"
    /\ UNCHANGED <<clientVars, standVars, aiVars, teleInVars, teleSent, fwdIdx,
                   sessVars, rxVars, fwCancel, runVars>>

\* the events _forward_openai_responses only logs: response.completed, error
EventLogged(e) == e.type \in {"response.completed", "error"}

\* whether the loop body leaves the loop on an event: it has no break and
\* raises nothing
MutEndsOnError(e) == e.type = "error"

EventEndsLoop(e) == FALSE

\* responses() yields the next event of the connection; the body handles it
FwEvent ==
    /\ fwPc = "iter" /\ ~fwCancel
    /\ aiQueue # <<>>
    /\ LET e == Head(aiQueue) IN
       /\ aiQueue' = Tail(aiQueue)
       /\ aiRead' = aiRead + 1
       /\ IF DeltaAudio(e) # None /\ AudioAddressable(stream_id)
          THEN /\ teleSent' = Append(teleSent, MediaFrame(stream_id, DeltaAudio(e)))
               /\ fwdIdx' = Append(fwdIdx, aiRead + 1)
          ELSE UNCHANGED <<teleSent, fwdIdx>>
       /\ fwLogged' = IF EventLogged(e) THEN fwLogged + 1 ELSE fwLogged
       /\ fwPc' = IF EventEndsLoop(e) THEN "done" ELSE "iter"
    /\ UNCHANGED <<clientVars, standVars, aiCount, earlyCount, teleInVars,
                   sessVars, rxVars, fwErr, fwCancel, runVars>>

\* the connection is closed and drained: the iteration ends after a normal
\* closure and raises ConnectionClosedError after an abnormal one
FwEnd ==
    /\ fwPc = "iter" /\ ~fwCancel
    /\ aiQueue = <<>>
    /\ connection # "open"
    /\ IF connClose = "error"
       THEN fwPc' = "failed" /\ fwErr' = "connclosed"
       ELSE fwPc' = "done" /\ UNCHANGED fwErr
    /\ UNCHANGED <<clientVars, standVars, aiVars, teleInVars, teleSent, fwdIdx,
                   sessVars, rxVars, fwCancel, runVars>>

FwCancelled ==
    /\ fwCancel /\ fwPc # "none" /\ ~Terminal(fwPc)
    /\ fwPc' = "cancelled"
    /\ UNCHANGED <<clientVars, standVars, aiVars, teleInVars, teleSent, fwdIdx,
                   sessVars, rxVars, fwErr, fwCancel, runVars>>

FwStep == FwStart \/ FwEvent \/ FwEnd \/ FwCancelled

\* -------------------------------------------------- run(): wait and clean up
\* the exceptions of the tasks asyncio.wait reports done
DoneErrors ==
    (IF rxPc = "failed" THEN {rxErr} ELSE {}) \cup
    (IF fwPc = "failed" THEN {fwErr} ELSE {})

\* `for task in done: if task.exception(): raise task.exception()`: what run()
\* ends with, done being a set
RunOutcomes(errs) == IF errs = {} THEN {"returned"} ELSE errs

\* run() leaves the `async with`: __aexit__ calls close()
RunExitScope(result) ==
    /\ CloseBegin
    /\ IF CloseRaises(connection)
       THEN runPc' = "exited" /\ runResult' = "attribute"
       ELSE IF CloseIssues(connection)
       THEN runPc' = "closing" /\ runResult' = result
       ELSE runPc' = "exited" /\ runResult' = result

\* asyncio.wait returns: every task that is done by now is in `done`, the other
\* is cancelled
RunWake ==
    /\ runPc = "waiting"
    /\ Terminal(rxPc) \/ Terminal(fwPc)
    /\ rxCancel' = ~Terminal(rxPc)
    /\ fwCancel' = ~Terminal(fwPc)
    /\ \E res \in RunOutcomes(DoneErrors) : RunExitScope(res)
    /\ UNCHANGED <<standVars, aiVars, teleInVars, teleSent, fwdIdx, sessVars,
                   rxPc, rxErr, rxTodo, rxAfter, fwPc, fwErr>>

\* the caller cancels run() while it waits: CancelledError leaves asyncio.wait,
\* which cancels neither task
RunCancelled ==
    /\ runPc = "waiting"
    /\ RunExitScope("cancelled")
    /\ UNCHANGED <<standVars, aiVars, teleInVars, teleSent, fwdIdx, sessVars,
                   rxVars, fwVars>>

\* connection.close() returns: self._connection = None.  The closing handshake
\* takes a round trip; a task cancelled before it has been resumed by then.
RunCloseResume ==
    /\ runPc = "closing"
    /\ ~(rxCancel /\ ~Terminal(rxPc))
    /\ ~(fwCancel /\ ~Terminal(fwPc))
    /\ connection' = None
    /\ runPc' = "exited"
    /\ UNCHANGED <<connClose, aiSent, connects, closeCalls, clientCloses, standVars,
                   aiVars, teleInVars, teleSent, fwdIdx, sessVars, rxVars, fwVars,
                   runResult>>

RunStep == RunStart \/ RunConnectFail \/ RunWake \/ RunCloseResume

Env ==
    \/ RxInput
    \/ \E e \in AiEvents : AiEmit(e)
    \/ \E m \in {"ok", "error"} : AiClose(m)
    \/ RunCancelled

Next == RunStep \/ RxStep \/ FwStep \/ Env

Spec == Init /\ [][Next]_vars

\* the event loop resumes every task that can run
FairSpec == Spec /\ WF_vars(RunStep) /\ WF_vars(RxStep) /\ WF_vars(FwStep)


\* ------------------------------------------- a client used on its own
\* One caller makes the calls one after the other; the peer may close the
\* connection between two calls.
CliCalled(op, err) ==
    /\ cliOps' = cliOps + 1 /\ cliLast' = op /\ cliErr' = err

bridgeVars == <<aiVars, teleInVars, teleSent, fwdIdx, sessVars, rxVars, fwVars, runVars>>

CliConnect ==
    /\ cliOps < MaxOps
    /\ IF ConnectReuses(connection) THEN UNCHANGED clientVars ELSE ConnectOpen
    /\ CliCalled("connect", "ok")
    /\ UNCHANGED bridgeVars

\* websockets.connect raises
CliConnectFail ==
    /\ cliOps < MaxOps
    /\ ~ConnectReuses(connection)
    /\ CliCalled("connect", "connect")
    /\ UNCHANGED <<clientVars, bridgeVars>>

\* close(), from call to return
CliClose ==
    /\ cliOps < MaxOps
    /\ clientCloses' = clientCloses + 1
    /\ IF CloseRaises(connection)
       THEN /\ CliCalled("close", "attribute")
            /\ UNCHANGED <<connection, connClose, closeCalls>>
       ELSE /\ CliCalled("close", "ok")
            /\ closeCalls' = IF CloseIssues(connection) THEN closeCalls + 1
                             ELSE closeCalls
            /\ connClose' = IF connection = "open" THEN "ok" ELSE connClose
            /\ connection' = None
    /\ UNCHANGED <<aiSent, connects, bridgeVars>>

\* send_json for each of msgs in turn; the first one raises when not connected
CliSend(op, msgs) ==
    /\ cliOps < MaxOps
    /\ IF SendAllowed(connection)
       THEN aiSent' = aiSent \o msgs /\ CliCalled(op, "ok")
       ELSE UNCHANGED aiSent /\ CliCalled(op, "notconnected")
    /\ UNCHANGED <<connection, connClose, connects, closeCalls, clientCloses,
                   bridgeVars>>

CliSendJson(m) == CliSend("send_json", <<m>>)

CliSendAudioChunk(audio, end_of_input) ==
    CliSend(IF end_of_input THEN "send_audio_chunk_end" ELSE "send_audio_chunk",
            SendAudioChunkMsgs(audio, end_of_input))

CliPeerClose(mode) ==
    /\ connection = "open"
    /\ connection' = "closed" /\ connClose' = mode
    /\ UNCHANGED <<aiSent, connects, closeCalls, clientCloses, standVars, bridgeVars>>

ClientNext ==
    \/ CliConnect
    \/ CliConnectFail
    \/ CliClose
    \/ \E m \in {CommitMsg, ResponseCreate} : CliSendJson(m)
    \/ \E a \in {"A", "B"}, eoi \in BOOLEAN : CliSendAudioChunk(a, eoi)
    \/ \E m \in {"ok", "error"} : CliPeerClose(m)

ClientSpec == Init /\ [][ClientNext]_vars


\* ================================================================ the claims
ReadyCount == Cardinality({i \in DOMAIN teleSent : teleSent[i].event = "ready"})

\* the audio of the append messages sent on the AI connection, in order
SentAudio ==
    LET S == SelectSeq(aiSent, LAMBDA m : m.type = "input_audio_buffer.append")
    IN  [i \in 1..Len(S) |-> S[i].audio]

CountType(t) == Cardinality({i \in DOMAIN aiSent : aiSent[i].type = t})

\* C1: every media frame sent to the telephony peer is sent with the readiness
\* latch set and after a ready frame, however early the AI service emits audio
\* and however the two loops interleave.
NoMediaBeforeReady ==
    \A i \in DOMAIN teleSent :
        teleSent[i].event = "media" =>
            /\ ready
            /\ \E j \in 1..(i - 1) : teleSent[j].event = "ready"

\* an audio delta waits while the stream id is known, the ready frame is sent
\* and the latch is not yet set
EarlyDeltaHeld ==
    /\ ~ready /\ rxPc = "on_start_sent" /\ fwPc = "wait_ready"
    /\ stream_id = "s1"
    /\ \E i \in DOMAIN aiQueue : aiQueue[i] = AiDeltaX

\* C2: at most one ready frame is sent to the telephony peer during one run().
ReadyAtMostOnce == ReadyCount <= 1

\* C3: receiving a start frame that carries a non-empty identifier under either
\* key sets streamId to that identifier and sends exactly one ready frame, with
\* the latch not yet set by that step; the handler then sets the latch, sending
\* nothing more and leaving streamId as it is.
StartMakesReady ==
    [][ /\ \A f \in Frames :
              (IsStart(f) /\ HasId(f) /\ RxReceive(f)) =>
                  /\ stream_id' = IdOf(f)
                  /\ teleSent' = Append(teleSent, ReadyFrame)
                  /\ ready' = ready
                  /\ rxPc' = "on_start_sent"
        /\ (rxPc = "on_start_sent" /\ rxPc' = "recv") =>
              /\ ready'
              /\ teleSent' = teleSent
              /\ stream_id' = stream_id
              /\ stream_id \notin {None, ""}
      ]_vars

\* a start frame with its identifier under stream_id has been handled to the end
StartHandledAltKey ==
    /\ ready /\ stream_id = "s2" /\ rxPc = "recv" /\ ReadyCount = 1 /\ nRecv = 1

\* C4: an audio delta the AI service emitted before the latch was set is never
\* forwarded to the telephony peer.
EarlyAudioNeverForwarded == \A k \in DOMAIN fwdIdx : fwdIdx[k] > earlyCount

\* C5: the audio of the append messages sent upstream is, in order, the audio of
\* the media frames received while the AI connection was open, and no commit or
\* response.create is sent unless a stop/close frame was received.
AudioForwardedInOrder ==
    /\ SentAudio = rxAudio
    /\ (CountType("input_audio_buffer.commit") + CountType("response.create") > 0)
           => stopAt # 0

\* two media frames with different audio have been forwarded
TwoChunksForwarded ==
    /\ rxAudio = <<"A", "B">> /\ SentAudio = <<"A", "B">> /\ rxPc = "recv"

\* C6 as stated: once the inbound loop has ended after a stop/close frame,
\* exactly one commit and exactly one response.create have been sent, and no
\* frame was received after that frame.
StopAlwaysFlushes ==
    (stopAt # 0 /\ Terminal(rxPc)) =>
        /\ CountType("input_audio_buffer.commit") = 1
        /\ CountType("response.create") = 1
        /\ nRecv = stopAt

\* C6, amended: no frame is received after the first stop/close frame; when the
\* inbound loop leaves through the stop/close branch, exactly one commit followed
\* by exactly one response.create has been sent, as the last two messages; and
\* the loop ends any other way after a stop/close frame only with the AI
\* connection no longer open (a failure then being the not-connected error).
StopFlushesOnce ==
    /\ stopAt # 0 => nRecv = stopAt
    /\ (rxPc = "done" /\ stopAt # 0) =>
           /\ CountType("input_audio_buffer.commit") = 1
           /\ CountType("response.create") = 1
           /\ Len(aiSent) >= 2
           /\ aiSent[Len(aiSent) - 1] = CommitMsg
           /\ aiSent[Len(aiSent)] = ResponseCreate
    /\ (stopAt # 0 /\ rxPc \in {"failed", "cancelled"}) => connection # "open"
    /\ (stopAt # 0 /\ rxPc = "failed") => rxErr = "notconnected"

\* the loop has left through the stop/close branch after forwarding audio, and
\* the peer could send more
StoppedAfterAudio ==
    /\ rxPc = "done" /\ stopAt = 2 /\ nRecv = 2 /\ Len(rxAudio) = 1

\* C7: once run() has left its wait and a loop has terminated with an error, the
\* other loop has been cancelled, close() has been called exactly once and run()
\* ends with that loop's error.
FirstErrorWins ==
    (runPc = "exited" /\ runResult # "cancelled") =>
        /\ rxPc = "failed" => (fwCancel /\ runResult = rxErr /\ clientCloses = 1)
        /\ fwPc = "failed" => (rxCancel /\ runResult = fwErr /\ clientCloses = 1)

\* C8: when run() has exited, both loops have terminated and the client is not
\* connected.
RunExitsAfterLoopsStop ==
    runPc = "exited" =>
        /\ rxPc \in {"none", "done", "failed", "cancelled"}
        /\ fwPc \in {"none", "done", "failed", "cancelled"}
        /\ connection # "open"

\* C9: once the AI connection is closed during run(), run() eventually exits.
AiCloseEndsRun ==
    (runPc = "waiting" /\ connection = "closed") ~> (runPc = "exited")

\* C10: close() raises no error and leaves the client not connected, at most one
\* connection.close() is issued on a connection, and a close() right after a
\* close() changes nothing.
CloseIdempotent ==
    /\ [](cliLast = "close" => (cliErr = "ok" /\ connection = None))
    /\ [](closeCalls <= 1)
    /\ [][(cliLast = "close" /\ cliLast' = "close" /\ cliOps' # cliOps) =>
              UNCHANGED <<connection, connClose, closeCalls, aiSent, connects>>]_vars

\* close() was called twice on a client that had been connected
ClosedTwice ==
    /\ cliLast = "close" /\ clientCloses = 2 /\ closeCalls = 1 /\ connects = 1


\* C11: once a connection has been opened, the first message sent on it is the
\* one session.update sent on it, and connect() on a connected client opens no
\* connection and sends nothing.
ConnectConfiguresFirst ==
    /\ [](connects > 0 =>
             /\ aiSent # <<>>
             /\ aiSent[1].type = "session.update"
             /\ CountType("session.update") = 1)
    /\ [][(connection = "open" /\ cliLast' = "connect" /\ cliOps' # cliOps) =>
              /\ cliErr' = "ok"
              /\ UNCHANGED <<connection, connClose, connects, closeCalls, aiSent>>
         ]_vars

\* connect() was called again on a connected client that had sent audio
ConnectedTwice ==
    /\ cliLast = "connect" /\ cliOps = 3 /\ connects = 1 /\ connection = "open"
    /\ Len(aiSent) = 2 /\ aiSent[2].type = "input_audio_buffer.append"

\* C12: a send on a client that is not connected raises the not-connected
\* error, sends nothing and leaves the client as it was.
SendNeedsConnection ==
    [][(/\ cliOps' # cliOps
        /\ cliLast' \in {"send_json", "send_audio_chunk", "send_audio_chunk_end"}
        /\ connection # "open") =>
            /\ cliErr' = "notconnected"
            /\ UNCHANGED <<connection, connClose, aiSent, connects, closeCalls,
                           clientCloses>>
      ]_vars

\* send_audio_chunk was called after close() on a client that had been connected
SentAfterClose ==
    /\ cliLast = "send_audio_chunk" /\ cliErr = "notconnected"
    /\ connects = 1 /\ clientCloses = 1 /\ connection = None
    /\ Len(aiSent) = 1

\* C13: on a connected client send_audio_chunk(audio, end_of_input) sends one
\* append carrying the audio; then, when end_of_input is true, one commit and
\* one response.create in that order, and nothing else when it is false.
ChunkSendsInOrder ==
    [][\A a \in {"A", "B"}, eoi \in BOOLEAN :
          (connection = "open" /\ CliSendAudioChunk(a, eoi)) =>
              /\ cliErr' = "ok"
              /\ aiSent' = aiSent \o
                    <<[type |-> "input_audio_buffer.append", audio |-> a]>> \o
                    (IF eoi
                     THEN <<[type |-> "input_audio_buffer.commit", audio |-> None],
                            [type |-> "response.create", audio |-> None]>>
                     ELSE <<>>)
      ]_vars

\* a chunk was sent without and then with end_of_input
ChunkSentBothWays ==
    /\ cliLast = "send_audio_chunk_end" /\ cliErr = "ok" /\ Len(aiSent) = 5
    /\ aiSent[2].audio = "A" /\ aiSent[3].audio = "B"
    /\ aiSent[4].type = "input_audio_buffer.commit"
    /\ aiSent[5].type = "response.create"


\* C14: after readiness every audio delta with non-empty audio that the
\* outbound loop consumes produces exactly one media frame, appended in
\* consumption order, carrying the delta's audio and the non-empty stream
\* identifier of the session; any other event produces no frame.
DeltasForwardedOneToOne ==
    [][(ready /\ aiRead' = aiRead + 1 /\ aiQueue # <<>>) =>
          LET e == Head(aiQueue) IN
          IF e.type = "response.output_audio.delta" /\ e.audio \notin {None, ""}
          THEN /\ stream_id \notin {None, ""}
               /\ teleSent' = Append(teleSent, [event |-> "media",
                                                streamId |-> stream_id,
                                                payload |-> e.audio])
          ELSE teleSent' = teleSent
      ]_vars

\* C15: once run() has left its wait after the inbound loop failed on a frame
\* that could not be decoded, the outbound loop has ended normally or been
\* cancelled, and run() raises the decode error.
DecodeErrorRaised ==
    (runPc = "exited" /\ runResult # "cancelled"
        /\ rxPc = "failed" /\ rxErr = "decode") =>
        /\ runResult = "decode"
        /\ fwPc # "done" => fwCancel

\* C16: once the stream identifier is non-empty no step changes it, and the
\* latch, once set, stays set.
StreamIdWrittenOnce ==
    [][/\ stream_id \notin {None, ""} => stream_id' = stream_id
       /\ ready => ready'
      ]_vars

\* C17: whenever the readiness latch is set the stream identifier is a
\* non-empty string.
ReadyImpliesStreamId == ready => stream_id \notin {None, ""}


DisconnectIsCleanFinish ==
    (runPc = "exited" /\ runResult # "cancelled" /\ rxPc = "done" /\ stopAt = 0) =>
        /\ CountType("input_audio_buffer.commit") = 0
        /\ CountType("response.create") = 0
        /\ runResult = "returned"
        /\ connection # "open"

\* C20: a start frame without a stream identifier under either key, received
\* while no identifier is set and the latch is unset, leaves both unset, sends
\* nothing to either peer and leaves the inbound loop receiving.
StartWithoutIdIgnored ==
    [][\A f \in Frames :
          (/\ IsStart(f) /\ ~HasId(f)
           /\ stream_id \in {None, ""} /\ ~ready
           /\ RxReceive(f)) =>
              /\ stream_id' \in {None, ""} /\ ~ready'
              /\ teleSent' = teleSent /\ aiSent' = aiSent
              /\ rxPc' = "recv"
      ]_vars

\* a start frame without identifier was received and the media frame after it
\* was processed, the session still not ready
MediaAfterIgnoredStart ==
    /\ stream_id = "" /\ ~ready /\ teleSent = <<>>
    /\ nRecv = 2 /\ rxAudio = <<"A">> /\ SentAudio = <<"A">> /\ rxPc = "recv"

====
